---- MODULE Spec2Model ----
(***************************************************************************)
(* Category closure table, its maintenance operations, the inventory      *)
(* satisfiability matcher and the category-suggestion workflow of the      *)
(* cocktail-recipes application.                                           *)
(***************************************************************************)
EXTENDS FiniteSets, Integers, Sequences, TLC

NumCats == 4            \* categories of the hierarchy specification
MatchCats == 3          \* categories of the matcher specification
SuggCats == 2           \* categories of the suggestion specification
MaxReparents == 2       \* reparents behind a table of the matcher specification
NumIngredients == 2
MaxCatsPerIngredient == 1   \* categories assigned to one ingredient
NumUsers == 1
NumRecipes == 1
MaxLines == 2           \* ingredient lines of a recipe
MaxDepth == 3           \* views.available_recipes clamps depth to 0..3
MaxSuggestions == 2     \* IngredientCategorySuggestion rows
MaxClock == 2           \* review timestamps
MaxInFlight == 2        \* admin review requests between their query and their writes
MaxTxnReparents == 2    \* reparents of one fix_category_hierarchy run
MaxTxns == 1            \* runs of fix_category_hierarchy
MIN_CONFIDENCE == 30    \* categorizer.MIN_CONFIDENCE = 0.3, in hundredths
MAX_DEPTH == 5
MATCH_THRESHOLD == 600  \* image_parser.MATCH_THRESHOLD = 0.6, in thousandths
max_candidates == 3     \* _find_fuzzy_matches(..., max_candidates=3)
MaxParsedRecipes == 2   \* recipes of a parsed image
MaxParsedIngredients == 2   \* ingredients of a parsed recipe          \* categorizer.MAX_DEPTH

Categories == 1..NumCats
Ingredients == 1..NumIngredients
Users == 1..NumUsers
Recipes == 1..NumRecipes
Depths == 0..MaxDepth

VARIABLES
    cats,           \* IngredientCategory rows (ids)
    closure,        \* IngredientCategoryAncestor rows
    lastOp,         \* the last hierarchy operation and the table it started from
    ingCategories,  \* Ingredient.categories (many-to-many), per ingredient
    inventory,      \* UserInventory rows, per (user, ingredient)
    lines,          \* RecipeIngredient rows, per recipe, in order
    query,          \* the last get_makeable_recipes call and what it returned
    ingRow,         \* Ingredient rows: name, slug, needs_categorization
    suggestions,    \* IngredientCategorySuggestion rows, by id
    now,            \* timezone.now()
    inflight,       \* review requests that have read their pending queryset
    call,           \* the last suggestion-workflow call, what it started from and returned
    txn,            \* the transaction of a running fix_category_hierarchy command
    reader,         \* a get_makeable_recipes call between its database queries
    drill,          \* the last suggest_category_for_ingredient call, step by step
    parse,          \* the last match_ingredients call: its input, log and verifications
    imp             \* a RecipeImport, the Recipe rows and the last approve_selected

vars == <<cats, closure, lastOp, ingCategories, inventory, lines, query,
          ingRow, suggestions, now, inflight, call, txn, reader,
          drill, parse, imp>>

matchVars == <<ingCategories, inventory, lines, query>>

suggVars == <<ingRow, suggestions, now, inflight, call>>

txnVars == <<txn, reader>>

importVars == <<drill, parse, imp>>

Row(c, a, d) == [category |-> c, ancestor |-> a, depth |-> d]

NoOp == [op |-> "none", child |-> 0, parent |-> 0, before |-> {}]

\* IngredientCategoryAncestor.objects.filter(category=c, ancestor=a)
Links(cl, c, a) == {r \in cl : r.category = c /\ r.ancestor = a}

\* .first() of a filter on (category, ancestor); depth of the row, 0 if none
DepthOrZero(cl, c, a) ==
    IF Links(cl, c, a) = {} THEN 0 ELSE (CHOOSE r \in Links(cl, c, a) : TRUE).depth

\* IngredientCategory.get_ancestors, as closure rows
AncestorLinks(cl, c, include_self) ==
    {r \in cl : r.category = c /\ r.depth >= (IF include_self THEN 0 ELSE 1)}

\* faulty variant: include_self is ignored, the category is always listed
DescendantLinks_AlwaysSelf(cl, c, include_self) == {r \in cl : r.ancestor = c}

\* IngredientCategory.get_descendants, as closure rows
DescendantLinks(cl, c, include_self) ==
    {r \in cl : r.ancestor = c /\ r.depth >= (IF include_self THEN 0 ELSE 1)}

\* order_by("...__depth"): every listing of the rows by non-decreasing depth
\* (rows of equal depth come in whatever order the database returns them)
OrderedByDepth(S) ==
    {s \in [1..Cardinality(S) -> S] :
        /\ \A i, j \in 1..Cardinality(S) : i # j => s[i] # s[j]
        /\ \A i, j \in 1..Cardinality(S) : i < j => s[i].depth <= s[j].depth}

\* IngredientCategory.get_ancestors: the lists the query can return
get_ancestors(cl, c, include_self) == OrderedByDepth(AncestorLinks(cl, c, include_self))

\* IngredientCategory.get_descendants: the lists the query can return
get_descendants(cl, c, include_self) == OrderedByDepth(DescendantLinks(cl, c, include_self))

\* the categories of list(c.get_ancestors(...)) / list(c.get_descendants(...))
AncestorSet(cl, c, include_self) == {r.ancestor : r \in AncestorLinks(cl, c, include_self)}
DescendantSet(cl, c, include_self) == {r.category : r \in DescendantLinks(cl, c, include_self)}

\* faulty variant: objects.create(...), the row is inserted whether or not the pair has one
GetOrCreateLink_Create(cl, c, a, d) == {Row(c, a, d)}

\* faulty variant: category and ancestor passed the wrong way round
GetOrCreateLink_Swapped(cl, c, a, d) ==
    IF Links(cl, a, c) # {} THEN {} ELSE {Row(a, c, d)}

\* objects.get_or_create(category=c, ancestor=a, defaults={"depth": d})
GetOrCreateLink(cl, c, a, d) ==
    IF Links(cl, c, a) # {} THEN {} ELSE {Row(c, a, d)}

\* faulty variant: the new child -> parent edge is not counted in the depth
reparent_category_NoEdge(cl, child, new_parent) ==
    IF Row(child, new_parent, 1) \in cl
    THEN cl
    ELSE cl \cup UNION {
             GetOrCreateLink(cl, x, a,
                 DepthOrZero(cl, x, child) + DepthOrZero(cl, new_parent, a))
             : <<x, a>> \in DescendantSet(cl, child, TRUE) \X AncestorSet(cl, new_parent, TRUE) }

\* faulty variant: rows are made for the new parent only, not its ancestors
reparent_category_ParentOnly(cl, child, new_parent) ==
    IF Row(child, new_parent, 1) \in cl
    THEN cl
    ELSE cl \cup UNION {
             GetOrCreateLink(cl, x, new_parent, DepthOrZero(cl, x, child) + 1)
             : x \in DescendantSet(cl, child, TRUE) }

\* Command.reparent_category: the closure table it leaves. The two loops
\* get_or_create one row per (descendant, parent_ancestor) pair; the pairs
\* are distinct and the rows read for base_depth and parent_depth exist
\* before the loops start, so the inserts do not depend on their order.
\* (The stats counters are local to one run of the command.)
reparent_category(cl, child, new_parent) ==
    IF Row(child, new_parent, 1) \in cl
    THEN cl
    ELSE LET descendants == DescendantSet(cl, child, TRUE)
             parent_ancestors == AncestorSet(cl, new_parent, TRUE)
         IN  cl \cup UNION {
                 GetOrCreateLink(cl, x, a,
                     DepthOrZero(cl, x, child) + 1 + DepthOrZero(cl, new_parent, a))
                 : <<x, a>> \in descendants \X parent_ancestors }

----------------------------------------------------------------------------
(* inventory/services.py *)

NoQuery == [user |-> 0, max_depth |-> 0, recipes |-> {}, ran |-> FALSE,
            exact_match_ids |-> {}, category_match_ids |-> {}]

\* faulty variant: the in_stock=True filter is missing
user_ing_ids_AnyRow(inv, user) == {i \in Ingredients : inv[<<user, i>>] # "absent"}

\* UserInventory.objects.filter(user=user, in_stock=True).values_list("ingredient_id")
user_ing_ids(inv, user) == {i \in Ingredients : inv[<<user, i>>] = "in_stock"}

\* faulty variant: depth__lt instead of depth__lte
user_ancestor_categories_Strict(cl, ic, ids, closure_depth) ==
    {r.ancestor : r \in {q \in cl : /\ \E i \in ids : q.category \in ic[i]
                                    /\ q.depth < closure_depth}}

\* IngredientCategoryAncestor.objects.filter(category__ingredients__in=ids,
\*     depth__lte=closure_depth).values_list("ancestor_id")
user_ancestor_categories(cl, ic, ids, closure_depth) ==
    {r.ancestor : r \in {q \in cl : /\ \E i \in ids : q.category \in ic[i]
                                    /\ q.depth <= closure_depth}}

\* IngredientCategoryAncestor.objects.filter(ancestor__in=...).values_list("category_id")
all_satisfiable_categories(cl, ancestors) ==
    {r.category : r \in {q \in cl : q.ancestor \in ancestors}}

\* faulty variant: closure_depth = max_depth, one level too far up
satisfiable_ids_OffByOne(cl, ic, inv, user, max_depth) ==
    IF max_depth = 0
    THEN user_ing_ids(inv, user)
    ELSE {i \in Ingredients :
             ic[i] \cap all_satisfiable_categories(cl,
                 user_ancestor_categories(cl, ic, user_ing_ids(inv, user), max_depth)) # {}}
         \cup user_ing_ids(inv, user)

\* faulty variant: the exact matches are not added to the category matches
satisfiable_ids_NoExact(cl, ic, inv, user, max_depth) ==
    IF max_depth = 0
    THEN user_ing_ids(inv, user)
    ELSE {i \in Ingredients :
             ic[i] \cap all_satisfiable_categories(cl,
                 user_ancestor_categories(cl, ic, user_ing_ids(inv, user), max_depth - 1)) # {}}

\* get_makeable_recipes, lines 36-73: the satisfiable ingredient ids
satisfiable_ids(cl, ic, inv, user, max_depth) ==
    IF max_depth = 0
    THEN user_ing_ids(inv, user)
    ELSE {i \in Ingredients :
             ic[i] \cap all_satisfiable_categories(cl,
                 user_ancestor_categories(cl, ic, user_ing_ids(inv, user), max_depth - 1)) # {}}
         \cup user_ing_ids(inv, user)

\* faulty variant: the optional=False filter is missing
required_count_AllLines(ls) == Cardinality(DOMAIN ls)

\* Count("recipe_ingredients", filter=Q(optional=False))
required_count(ls) == Cardinality({k \in DOMAIN ls : ~ls[k].optional})

\* Count("recipe_ingredients", filter=Q(optional=False, ingredient_id__in=ids))
satisfied_count(ls, ids) ==
    Cardinality({k \in DOMAIN ls : ~ls[k].optional /\ ls[k].ingredient \in ids})

\* faulty variant: the required_count__gt=0 filter is missing
RecipeFilter_NoMinimum(ls, ids) == required_count(ls) = satisfied_count(ls, ids)

\* .filter(required_count=F("satisfied_count"), required_count__gt=0)
RecipeFilter(ls, ids) ==
    required_count(ls) = satisfied_count(ls, ids) /\ required_count(ls) > 0

\* get_makeable_recipes: the recipes of the returned queryset (which is
\* ordered by name; the claims are about membership)
get_makeable_recipes(cl, ic, inv, ln, user, max_depth) ==
    IF user_ing_ids(inv, user) = {}
    THEN {}
    ELSE {r \in Recipes : RecipeFilter(ln[r], satisfiable_ids(cl, ic, inv, user, max_depth))}

\* faulty variant: the exact matches are not taken out of the category matches
get_ingredient_match_sets_NoSubtract(cl, ic, inv, user, max_depth) ==
    IF user_ing_ids(inv, user) = {} \/ max_depth = 0
    THEN [exact |-> user_ing_ids(inv, user), category |-> {}]
    ELSE [exact |-> user_ing_ids(inv, user),
          category |-> {i \in Ingredients :
              ic[i] \cap all_satisfiable_categories(cl,
                  user_ancestor_categories(cl, ic, user_ing_ids(inv, user),
                                           max_depth - 1)) # {}}]

\* views._get_ingredient_match_sets: (user_ing_ids, category_match_ids)
get_ingredient_match_sets(cl, ic, inv, user, max_depth) ==
    IF user_ing_ids(inv, user) = {} \/ max_depth = 0
    THEN [exact |-> user_ing_ids(inv, user), category |-> {}]
    ELSE [exact |-> user_ing_ids(inv, user),
          category |-> {i \in Ingredients :
              ic[i] \cap all_satisfiable_categories(cl,
                  user_ancestor_categories(cl, ic, user_ing_ids(inv, user),
                                           max_depth - 1)) # {}}
                  \ user_ing_ids(inv, user)]

----------------------------------------------------------------------------
(* ingredients/services/categorizer.py, ingredients/models.py (suggestions), *)
(* recipes/services/import_processor.py (get_or_create_ingredient)           *)

\* confidences the language model can answer, in hundredths: one below
\* the threshold and the threshold itself
Confidences == {MIN_CONFIDENCE - 1, MIN_CONFIDENCE}

\* the answers _call_llm can return: category_slug is null, "parent", a slug
\* no category has, or the slug of a category
LLMAnswers(cs) ==
    [slug : {"null", "parent", "unknown"}, category : {0}, confidence : Confidences]
        \cup [slug : {"category"}, category : cs, confidence : Confidences]

\* what suggest_category_for_ingredient returns (category 0 is None), or
\* that it raised CategorizationError
Outcome(c, confidence) == [raised |-> FALSE, category |-> c, confidence |-> confidence]
Raised == [raised |-> TRUE, category |-> 0, confidence |-> 0]

\* categorizer.get_top_level_categories: categories with one closure row
get_top_level_categories(cl, cs) ==
    {c \in cs : Cardinality({q \in cl : q.category = c}) = 1}

\* categorizer.get_subcategories: the direct children of a category
get_subcategories(cl, parent_category) ==
    {r.category : r \in {q \in cl : q.ancestor = parent_category /\ q.depth = 1}}

\* suggest_category_for_ingredient, step 3: the drill-down loop, over every
\* answer the language model can give at each step
RECURSIVE drill_down(_, _, _, _, _)
drill_down(cl, cs, current_category, confidence, depth) ==
    IF depth >= MAX_DEPTH \/ get_subcategories(cl, current_category) = {}
    THEN {Outcome(current_category, confidence)}
    ELSE {Raised} \cup UNION {
             IF a.slug = "category"
             THEN drill_down(cl, cs, a.category, a.confidence, depth + 1)
             ELSE {Outcome(current_category, confidence)}
             : a \in LLMAnswers(cs) }

\* suggest_category_for_ingredient: every (category, confidence) it can
\* return, and Raised when a call of the language model fails
suggest_category_for_ingredient(cl, cs) ==
    IF get_top_level_categories(cl, cs) = {}
    THEN {Outcome(0, 0)}
    ELSE {Raised} \cup UNION {
             IF a.slug = "null" THEN {Outcome(0, a.confidence)}
             ELSE IF a.slug = "category"
             THEN drill_down(cl, cs, a.category, a.confidence, 0)
             ELSE {Outcome(0, 0)}
             : a \in LLMAnswers(cs) }

\* suggest_category_for_ingredient, the while loop: the categories
\* current_category takes, in order, until the loop is left
RECURSIVE drill_down_path(_, _, _, _)
drill_down_path(cl, cs, path, depth) ==
    IF depth >= MAX_DEPTH \/ get_subcategories(cl, path[Len(path)]) = {}
    THEN {path}
    ELSE UNION { IF a.slug = "category"
                 THEN drill_down_path(cl, cs, Append(path, a.category), depth + 1)
                 ELSE {path}
                 : a \in LLMAnswers(cs) }

\* suggest_category_for_ingredient: the categories current_category takes, the
\* answer to the top-level prompt first; <<>> when None is returned
suggest_category_path(cl, cs) ==
    IF get_top_level_categories(cl, cs) = {}
    THEN {<<>>}
    ELSE UNION { IF a.slug = "category"
                 THEN drill_down_path(cl, cs, <<a.category>>, 0)
                 ELSE {<<>>}
                 : a \in LLMAnswers(cs) }

NewSuggestion(i, c, confidence) ==
    [ingredient |-> i, suggested_category |-> c, confidence |-> confidence,
     status |-> "pending", reviewed_at |-> 0, reviewed_by |-> 0]

\* IngredientCategorySuggestion.objects.filter(ingredient=i,
\*     suggested_category=c, status=PENDING)
PendingFor(sugs, i, c) ==
    {k \in DOMAIN sugs : /\ sugs[k].ingredient = i
                         /\ sugs[k].suggested_category = c
                         /\ sugs[k].status = "pending"}

\* IngredientCategorySuggestion.objects.create under the constraint
\* unique_pending_suggestion: a second pending row of the pair is refused
create_suggestion(sugs, i, c, confidence) ==
    IF PendingFor(sugs, i, c) # {}
    THEN [suggestions |-> sugs, result |-> 0, raised |-> TRUE]
    ELSE [suggestions |-> Append(sugs, NewSuggestion(i, c, confidence)),
          result |-> Len(sugs) + 1, raised |-> FALSE]

\* faulty variant: the confidence is not compared with MIN_CONFIDENCE
categorize_ingredient_NoThreshold(sugs, i, o) ==
    IF o.raised THEN [suggestions |-> sugs, result |-> 0, raised |-> TRUE]
    ELSE IF o.category = 0 THEN [suggestions |-> sugs, result |-> 0, raised |-> FALSE]
    ELSE IF PendingFor(sugs, i, o.category) # {}
    THEN [suggestions |-> sugs, raised |-> FALSE,
          result |-> CHOOSE k \in PendingFor(sugs, i, o.category) :
                         \A j \in PendingFor(sugs, i, o.category) : k >= j]
    ELSE create_suggestion(sugs, i, o.category, o.confidence)

\* faulty variant: no look-up of an existing pending suggestion
categorize_ingredient_NoExistingCheck(sugs, i, o) ==
    IF o.raised THEN [suggestions |-> sugs, result |-> 0, raised |-> TRUE]
    ELSE IF o.category = 0 THEN [suggestions |-> sugs, result |-> 0, raised |-> FALSE]
    ELSE IF o.confidence < MIN_CONFIDENCE
    THEN [suggestions |-> sugs, result |-> 0, raised |-> FALSE]
    ELSE create_suggestion(sugs, i, o.category, o.confidence)

\* categorizer.categorize_ingredient, given what
\* suggest_category_for_ingredient did: the suggestion table it leaves, the
\* id of the suggestion it returns (0 is None) and whether it raised;
\* .first() takes the newest row (Meta.ordering is -created_at)
categorize_ingredient(sugs, i, o) ==
    IF o.raised THEN [suggestions |-> sugs, result |-> 0, raised |-> TRUE]
    ELSE IF o.category = 0 THEN [suggestions |-> sugs, result |-> 0, raised |-> FALSE]
    ELSE IF o.confidence < MIN_CONFIDENCE
    THEN [suggestions |-> sugs, result |-> 0, raised |-> FALSE]
    ELSE IF PendingFor(sugs, i, o.category) # {}
    THEN [suggestions |-> sugs, raised |-> FALSE,
          result |-> CHOOSE k \in PendingFor(sugs, i, o.category) :
                         \A j \in PendingFor(sugs, i, o.category) : k >= j]
    ELSE create_suggestion(sugs, i, o.category, o.confidence)

\* the writes of approve, in order: categories.add, ingredient.save,
\* suggestion.save; FailAt 0 is a call in which every write succeeds
FailAt == 0..3

\* faulty variant: needs_categorization is left as it was
approve_KeepsFlag(ic, rows, sugs, k, user, t, fail) ==
    [ingCategories |->
        IF fail = 1 THEN ic
        ELSE [ic EXCEPT ![sugs[k].ingredient] = @ \cup {sugs[k].suggested_category}],
     ingRow |-> rows,
     suggestions |->
        IF fail # 0 THEN sugs
        ELSE [sugs EXCEPT ![k].status = "approved",
                          ![k].reviewed_at = t, ![k].reviewed_by = user],
     raised |-> fail # 0]

\* IngredientCategorySuggestion.approve on suggestion k, called at time t;
\* the write numbered fail raises and the writes before it stay (the method
\* opens no transaction; each write commits on its own)
approve(ic, rows, sugs, k, user, t, fail) ==
    [ingCategories |->
        IF fail = 1 THEN ic
        ELSE [ic EXCEPT ![sugs[k].ingredient] = @ \cup {sugs[k].suggested_category}],
     ingRow |->
        IF fail \in {1, 2} THEN rows
        ELSE [rows EXCEPT ![sugs[k].ingredient].needs_categorization = FALSE],
     suggestions |->
        IF fail # 0 THEN sugs
        ELSE [sugs EXCEPT ![k].status = "approved",
                          ![k].reviewed_at = t, ![k].reviewed_by = user],
     raised |-> fail # 0]

\* IngredientCategorySuggestion.reject on suggestion k: one write
reject(ic, rows, sugs, k, user, t, fail) ==
    [ingCategories |-> ic,
     ingRow |-> rows,
     suggestions |->
        IF fail # 0 THEN sugs
        ELSE [sugs EXCEPT ![k].status = "rejected",
                          ![k].reviewed_at = t, ![k].reviewed_by = user],
     raised |-> fail # 0]

\* names an import can ask for
Names == {"Lime Juice", "LIME JUICE", "Lime-Juice", "Rum"}

\* str.lower, which name__iexact compares by
lower(name) ==
    CASE name = "Lime Juice" -> "lime juice"
      [] name = "LIME JUICE" -> "lime juice"
      [] name = "Lime-Juice" -> "lime-juice"
      [] name = "Rum" -> "rum"
      [] name = "lime juice" -> "lime juice"
      [] name = "Lime" -> "lime"
      [] name = "Lime Juices" -> "lime juices"
      [] name = "Limes Juice" -> "limes juice"
      [] name = "Lime Juce" -> "lime juce"
      [] name = "LIME JUCE" -> "lime juce"
      [] name = "Daiquiri" -> "daiquiri"
      [] name = "DAIQUIRI" -> "daiquiri"
      [] name = "Gimlet" -> "gimlet"

\* django.utils.text.slugify
slugify(name) ==
    CASE name = "Lime Juice" -> "lime-juice"
      [] name = "LIME JUICE" -> "lime-juice"
      [] name = "Lime-Juice" -> "lime-juice"
      [] name = "Rum" -> "rum"
      [] name = "lime juice" -> "lime-juice"
      [] name = "Lime" -> "lime"
      [] name = "Lime Juices" -> "lime-juices"
      [] name = "Limes Juice" -> "limes-juice"
      [] name = "Lime Juce" -> "lime-juce"
      [] name = "LIME JUCE" -> "lime-juce"

NoIngredient == [exists |-> FALSE, name |-> "", slug |-> "", needs_categorization |-> FALSE]

\* Ingredient.objects.filter(name__iexact=name) / filter(slug=slug)
MatchingIngredients(rows, name) ==
    IF {i \in Ingredients : rows[i].exists /\ lower(rows[i].name) = lower(name)} # {}
    THEN {i \in Ingredients : rows[i].exists /\ lower(rows[i].name) = lower(name)}
    ELSE {i \in Ingredients : rows[i].exists /\ rows[i].slug = slugify(name)}

\* the id the database gives the next Ingredient row
NextIngredientId(rows) ==
    CHOOSE i \in Ingredients :
        ~rows[i].exists /\ \A j \in Ingredients : ~rows[j].exists => i <= j

\* faulty variant: the exception of categorize_ingredient is not caught
get_or_create_ingredient_NoCatch(rows, sugs, name, o) ==
    IF MatchingIngredients(rows, name) # {}
    THEN [ingRow |-> rows, suggestions |-> sugs, created |-> FALSE, raised |-> FALSE,
          ingredient |-> CHOOSE i \in MatchingIngredients(rows, name) : TRUE]
    ELSE [ingRow |-> [rows EXCEPT ![NextIngredientId(rows)] =
                         [exists |-> TRUE, name |-> name, slug |-> slugify(name),
                          needs_categorization |-> TRUE]],
          suggestions |-> categorize_ingredient(sugs, NextIngredientId(rows), o).suggestions,
          ingredient |-> IF o.raised THEN 0 ELSE NextIngredientId(rows),
          created |-> ~o.raised,
          raised |-> o.raised]

\* import_processor.get_or_create_ingredient, given what the categorization
\* of a new ingredient does: the tables it leaves, the (ingredient, created)
\* it returns and whether an exception reached the caller
get_or_create_ingredient(rows, sugs, name, o) ==
    IF MatchingIngredients(rows, name) # {}
    THEN [ingRow |-> rows, suggestions |-> sugs, created |-> FALSE, raised |-> FALSE,
          ingredient |-> CHOOSE i \in MatchingIngredients(rows, name) : TRUE]
    ELSE [ingRow |-> [rows EXCEPT ![NextIngredientId(rows)] =
                         [exists |-> TRUE, name |-> name, slug |-> slugify(name),
                          needs_categorization |-> TRUE]],
          suggestions |-> categorize_ingredient(sugs, NextIngredientId(rows), o).suggestions,
          ingredient |-> NextIngredientId(rows),
          created |-> TRUE,
          raised |-> FALSE]

----------------------------------------------------------------------------
(* fix_category_hierarchy in its transaction, get_makeable_recipes beside it *)

\* no command is running; state is "idle", "active", "committed" or
\* "rolled_back", start the table when the transaction began, work the table
\* as the transaction sees it, todo the rows the running reparent_category
\* has yet to insert, inserted the rows the transaction has inserted
NoTxn == [state |-> "idle", start |-> {}, work |-> {}, todo |-> {}, inserted |-> {},
          reparents |-> 0, runs |-> 0]

\* what one closure-table query of get_makeable_recipes met: the state of
\* the command's transaction and which of its inserted rows the query saw
\* (visible) and did not see (hidden)
NoRead == [ran |-> FALSE, state |-> "idle", visible |-> {}, hidden |-> {}]

NoReader == [pc |-> "idle", user |-> 0, max_depth |-> 0,
             ancestors |-> {}, categories |-> {}, first |-> NoRead, second |-> NoRead]

\* faulty variant: no transaction.atomic(), every insert is committed at once
insert_Autocommit(committed, work, row) ==
    [committed |-> committed \cup {row}, work |-> work \cup {row}]

\* an insert of get_or_create inside "with transaction.atomic()": the row
\* is in the table the transaction sees, not in the committed table
insert(committed, work, row) ==
    [committed |-> committed, work |-> work \cup {row}]

\* a closure-table query of get_makeable_recipes on table, as a record
ReadOf(table) ==
    [ran |-> TRUE, state |-> txn.state,
     visible |-> txn.inserted \cap table, hidden |-> txn.inserted \ table]

----------------------------------------------------------------------------
(* Specifications *)

NoSuggestion == [NewSuggestion(0, 0, 0) EXCEPT !.status = "none"]

\* what a suggestion-workflow call on ingredient i, suggestion k and name
\* started from: the ingredient's row, categories and flag, the suggestion's
\* row, the suggestion table and the ingredients the name matches
Before(i, k, name) ==
    [exists |-> IF i \in Ingredients THEN ingRow[i].exists ELSE FALSE,
     categories |-> IF i \in Ingredients THEN ingCategories[i] ELSE {},
     needs_categorization |-> IF i \in Ingredients THEN ingRow[i].needs_categorization
                              ELSE FALSE,
     row |-> IF k \in DOMAIN suggestions THEN suggestions[k] ELSE NoSuggestion,
     suggestions |-> suggestions,
     matching |-> IF name \in Names THEN MatchingIngredients(ingRow, name) ELSE {}]

NoCall ==
    [op |-> "none", name |-> "", ingredient |-> 0, suggestion |-> 0, user |-> 0,
     time |-> 0, fail |-> 0, raised |-> FALSE, result |-> 0, created |-> FALSE,
     outcome |-> Raised,
     before |-> [exists |-> FALSE, categories |-> {}, needs_categorization |-> FALSE,
                 row |-> NoSuggestion, suggestions |-> <<>>, matching |-> {}]]

----------------------------------------------------------------------------
(* recipes/services/image_parser.py: match_ingredients                       *)

\* ingredient names of the catalogue, in the order of Ingredient.Meta.ordering
CatalogueNames == <<"Lime", "Lime Juice", "Lime Juices", "Limes Juice">>

\* ingredient names the parser read from a recipe; "" is a missing name
ParsedNames == {"", "lime juice", "Lime Juce"}

\* str.upper
upper(name) ==
    CASE name = "lime juice" -> "LIME JUICE"
      [] name = "Lime Juce" -> "LIME JUCE"

\* SequenceMatcher(None, a, b).ratio() of two lowercased names, in thousandths
ratio(a, b) ==
    CASE a = b -> 1000
      [] a = "lime juice" /\ b = "lime" -> 571
      [] a = "lime juice" /\ b = "lime juices" -> 952
      [] a = "lime juice" /\ b = "limes juice" -> 952
      [] a = "lime juce" /\ b = "lime" -> 615
      [] a = "lime juce" /\ b = "lime juice" -> 947
      [] a = "lime juce" /\ b = "lime juices" -> 900
      [] a = "lime juce" /\ b = "limes juice" -> 900

\* what the verifier's language model does with a prompt
Answers == {"yes", "no", "fail"}

\* the verifier's answer for each existing name it may be asked about
Oracles(existing) == [{existing[k] : k \in DOMAIN existing} -> Answers]

NameRank(name) == CHOOSE k \in DOMAIN CatalogueNames : CatalogueNames[k] = name

\* the names of a set of Ingredient rows, ordered by name
RECURSIVE order_by_name(_, _)
order_by_name(rows, ids) ==
    IF ids = {}
    THEN <<>>
    ELSE LET first == CHOOSE i \in ids :
                          \A j \in ids : NameRank(rows[i].name) <= NameRank(rows[j].name)
         IN  <<rows[first].name>> \o order_by_name(rows, ids \ {first})

\* list(Ingredient.objects.values_list("name", flat=True))
existing_ingredients(rows) ==
    order_by_name(rows, {i \in DOMAIN rows : rows[i].exists})

\* {name.lower(): name for name in existing_ingredients}: a later name
\* replaces an earlier one with the same key
name_lookup(existing) ==
    [l \in {lower(existing[k]) : k \in DOMAIN existing} |->
        existing[CHOOSE k \in DOMAIN existing :
                     /\ lower(existing[k]) = l
                     /\ \A j \in DOMAIN existing : lower(existing[j]) = l => j <= k]]

\* matches.sort(key=lambda x: x[1], reverse=True): stable, descending
RECURSIVE sort_by_similarity(_)
sort_by_similarity(matches) ==
    IF matches = <<>>
    THEN <<>>
    ELSE LET k == CHOOSE i \in DOMAIN matches :
                      /\ \A j \in DOMAIN matches :
                             matches[j].similarity <= matches[i].similarity
                      /\ \A j \in 1..(i - 1) :
                             matches[j].similarity < matches[i].similarity
         IN  <<matches[k]>> \o sort_by_similarity(
                 [j \in 1..(Len(matches) - 1) |->
                     IF j < k THEN matches[j] ELSE matches[j + 1]])

\* _find_fuzzy_matches(parsed_name, existing_names)
find_fuzzy_matches(parsed_name, existing_names) ==
    LET scored == [k \in DOMAIN existing_names |->
                      [name |-> existing_names[k],
                       similarity |-> ratio(lower(parsed_name), lower(existing_names[k]))]]
        AboveThreshold(m) == m.similarity >= MATCH_THRESHOLD
        sorted == sort_by_similarity(SelectSeq(scored, AboveThreshold))
    IN  SubSeq(sorted, 1, IF Len(sorted) < max_candidates THEN Len(sorted)
                          ELSE max_candidates)

\* _verify_ingredient_match: the answer starts with "yes"; an exception of
\* the provider is caught and gives False
verify_ingredient_match(answer) == answer = "yes"

NoEntry ==
    [recipe |-> "", original |-> "", status |-> "None", matched_to |-> "",
     similarity |-> 0, candidates_checked |-> <<>>]

\* faulty variant: the exact-match check is missing
match_ingredient_NoExact(existing, recipe_name, parsed_name, oracle) ==
    LET entry == [NoEntry EXCEPT !.recipe = recipe_name, !.original = parsed_name]
        candidates == find_fuzzy_matches(parsed_name, existing)
        hits == {k \in DOMAIN candidates :
                    verify_ingredient_match(oracle[candidates[k].name])}
        n == IF hits = {} THEN Len(candidates)
             ELSE CHOOSE k \in hits : \A j \in hits : k <= j
        checked == SubSeq(candidates, 1, n)
    IN  IF parsed_name = ""
        THEN [name |-> parsed_name, logged |-> FALSE, entry |-> NoEntry,
              compared |-> FALSE, verified |-> <<>>]
        ELSE [name |-> IF hits = {} THEN upper(parsed_name) ELSE candidates[n].name,
              logged |-> TRUE,
              entry |-> [entry EXCEPT
                  !.status = IF hits = {} THEN "no_match" ELSE "fuzzy_matched",
                  !.matched_to = IF hits = {} THEN "" ELSE candidates[n].name,
                  !.similarity = IF hits = {} THEN 0 ELSE candidates[n].similarity,
                  !.candidates_checked = checked],
              compared |-> TRUE,
              verified |-> [k \in 1..n |-> candidates[k].name]]

\* match_ingredients, the body of the inner loop for one ingredient: the
\* name it leaves in the ingredient, the log entry it appends if any, whether
\* _find_fuzzy_matches ran, and the candidates _verify_ingredient_match was
\* called with, in order
match_ingredient(existing, recipe_name, parsed_name, oracle) ==
    LET entry == [NoEntry EXCEPT !.recipe = recipe_name, !.original = parsed_name]
        lookup == name_lookup(existing)
        candidates == find_fuzzy_matches(parsed_name, existing)
        hits == {k \in DOMAIN candidates :
                    verify_ingredient_match(oracle[candidates[k].name])}
        n == IF hits = {} THEN Len(candidates)
             ELSE CHOOSE k \in hits : \A j \in hits : k <= j
        checked == SubSeq(candidates, 1, n)
    IN  IF parsed_name = ""
        THEN [name |-> parsed_name, logged |-> FALSE, entry |-> NoEntry,
              compared |-> FALSE, verified |-> <<>>]
        ELSE IF lower(parsed_name) \in DOMAIN lookup
        THEN [name |-> lookup[lower(parsed_name)], logged |-> TRUE,
              entry |-> [entry EXCEPT !.status = "exact_match",
                                      !.matched_to = lookup[lower(parsed_name)]],
              compared |-> FALSE, verified |-> <<>>]
        ELSE [name |-> IF hits = {} THEN upper(parsed_name) ELSE candidates[n].name,
              logged |-> TRUE,
              entry |-> [entry EXCEPT
                  !.status = IF hits = {} THEN "no_match" ELSE "fuzzy_matched",
                  !.matched_to = IF hits = {} THEN "" ELSE candidates[n].name,
                  !.similarity = IF hits = {} THEN 0 ELSE candidates[n].similarity,
                  !.candidates_checked = checked],
              compared |-> TRUE,
              verified |-> [k \in 1..n |-> candidates[k].name]]

\* the concatenation of a sequence of sequences
RECURSIVE Flatten(_)
Flatten(ss) ==
    IF ss = <<>> THEN <<>> ELSE Head(ss) \o Flatten(Tail(ss))

\* match_ingredients(parsed_data): the recipes with the names it leaves, the
\* matching_log it stores, and one step for every ingredient the loops reach
match_ingredients(existing, recipes, oracle) ==
    IF existing = <<>>
    THEN [recipes |-> recipes, matching_log |-> <<>>, steps |-> <<>>]
    ELSE LET results == [r \in DOMAIN recipes |->
                            [k \in DOMAIN recipes[r].ingredients |->
                                match_ingredient(existing, recipes[r].name,
                                                 recipes[r].ingredients[k], oracle)]]
             steps == Flatten([r \in DOMAIN recipes |->
                          [k \in DOMAIN recipes[r].ingredients |->
                              [recipe |-> r, index |-> k,
                               original |-> recipes[r].ingredients[k],
                               result |-> results[r][k]]]])
             IsLogged(st) == st.result.logged
             logged == SelectSeq(steps, IsLogged)
         IN  [recipes |-> [r \in DOMAIN recipes |->
                              [name |-> recipes[r].name,
                               ingredients |-> [k \in DOMAIN recipes[r].ingredients |->
                                                   results[r][k].name]]],
              matching_log |-> [j \in DOMAIN logged |-> logged[j].result.entry],
              steps |-> steps]

----------------------------------------------------------------------------
(* recipes/services/import_processor.py: approve_import; recipes/admin.py    *)

\* recipe names and ingredient names of a reviewed import
ImportTitles == {"Daiquiri", "DAIQUIRI", "Gimlet"}
ImportNames == {"Lime Juice", "LIME JUICE", "Rum"}

\* a RecipeImport row, the Recipe table (by name, with the ingredients of the
\* RecipeIngredient rows in order) and what the last approve_selected reported
NoImport ==
    [status |-> "none", parsed |-> <<>>, recipe |-> "", approved_at |-> 0,
     recipeRows |-> {}, ran |-> FALSE, approved |-> 0, errors |-> <<>>]

\* find_matching_recipe: Recipe.objects.filter(name__iexact=name)
find_matching_recipe(recipeRows, name) ==
    {x \in recipeRows : lower(x.name) = lower(name)}

\* the loop of create_recipe_from_data / update_recipe_from_data:
\* get_or_create_ingredient for each ingredient of the data, in order
RECURSIVE recipe_ingredients(_, _, _, _)
recipe_ingredients(rows, sugs, names, o) ==
    IF names = <<>>
    THEN [ingRow |-> rows, suggestions |-> sugs, ingredients |-> <<>>]
    ELSE LET first == get_or_create_ingredient(rows, sugs, Head(names), o)
             rest == recipe_ingredients(first.ingRow, first.suggestions, Tail(names), o)
         IN  [ingRow |-> rest.ingRow, suggestions |-> rest.suggestions,
              ingredients |-> <<first.ingredient>> \o rest.ingredients]

\* approve_import(recipe_import, recipe_index), recipe_index counted from 1:
\* the database and the RecipeImport instance it leaves, or that it raised
\* ValueError before writing anything
approve_import(db, recipe_index, o, t) ==
    IF db.import.status = "approved"
    THEN [db EXCEPT !.raised = TRUE, !.error = "Import already approved"]
    ELSE IF db.import.parsed = <<>>
    THEN [db EXCEPT !.raised = TRUE, !.error = "No recipes in parsed data"]
    ELSE IF recipe_index > Len(db.import.parsed)
    THEN [db EXCEPT !.raised = TRUE, !.error = "Recipe index out of range"]
    ELSE LET recipe_data == db.import.parsed[recipe_index]
             existing == find_matching_recipe(db.import.recipeRows, recipe_data.name)
             name == IF existing # {}
                     THEN (CHOOSE x \in existing : TRUE).name
                     ELSE recipe_data.name
             made == recipe_ingredients(db.ingRow, db.suggestions,
                                        recipe_data.ingredients, o)
         IN  [db EXCEPT
                 !.ingRow = made.ingRow,
                 !.suggestions = made.suggestions,
                 !.import.recipeRows =
                     (@ \ {x \in @ : x.name = name})
                         \cup {[name |-> name, ingredients |-> made.ingredients]},
                 !.import.status = "approved",
                 !.import.recipe = name,
                 !.import.approved_at = t]

\* RecipeImportAdmin.approve_selected, the inner loop from index i on: it is
\* left by the first approve_import that raises
RECURSIVE approve_recipes(_, _, _, _)
approve_recipes(db, i, o, t) ==
    IF i > Len(db.import.parsed) \/ db.raised
    THEN db
    ELSE approve_recipes(approve_import(db, i, o, t), i + 1, o, t)

NoDrill == [ran |-> FALSE, raised |-> FALSE, path |-> <<>>, category |-> 0]

NoParse ==
    [ran |-> FALSE, existing |-> <<>>, parsed |-> <<>>, oracle |-> <<>>,
     recipes |-> <<>>, matching_log |-> <<>>, steps |-> <<>>]

\* the hierarchy specification starts from an empty database
Init ==
    /\ cats = {}
    /\ closure = {}
    /\ lastOp = NoOp
    /\ ingCategories = [i \in Ingredients |-> {}]
    /\ inventory = [ui \in Users \X Ingredients |-> "absent"]
    /\ lines = [r \in Recipes |-> <<>>]
    /\ query = NoQuery
    /\ ingRow = [i \in Ingredients |-> NoIngredient]
    /\ suggestions = <<>>
    /\ now = 0
    /\ inflight = {}
    /\ call = NoCall
    /\ txn = NoTxn
    /\ reader = NoReader
    /\ drill = NoDrill
    /\ parse = NoParse
    /\ imp = NoImport

\* Command.get_or_create_top_level
CreateTopLevel(c) ==
    /\ cats' = cats \cup {c}
    /\ closure' = IF c \in cats THEN closure
                  ELSE closure \cup GetOrCreateLink(closure, c, c, 0)
    /\ lastOp' = [op |-> "create", child |-> c, parent |-> 0, before |-> closure]
    /\ UNCHANGED <<matchVars, suggVars, txnVars, importVars>>

\* Command.fix_hierarchy: one child of one parent
Reparent(c, p) ==
    /\ c \in cats /\ p \in cats
    /\ c # p
    /\ closure' = reparent_category(closure, c, p)
    /\ lastOp' = [op |-> "reparent", child |-> c, parent |-> p, before |-> closure]
    /\ UNCHANGED <<cats, matchVars, suggVars, txnVars, importVars>>

NextHier ==
    \/ \E c \in Categories : CreateTopLevel(c)
    \/ \E c, p \in Categories : Reparent(c, p)

SpecHier == Init /\ [][NextHier]_vars

\* the closure tables that up to k reparents make of MatchCats top-level
\* categories; categories are interchangeable (every assignment of
\* ingredients to them is drawn), so the first reparent is taken to be (1, 2)
RECURSIVE TablesAfter(_)
TablesAfter(k) ==
    IF k = 0
    THEN {{Row(c, c, 0) : c \in 1..MatchCats}}
    ELSE IF k = 1
    THEN TablesAfter(0) \cup {reparent_category(t, 1, 2) : t \in TablesAfter(0)}
    ELSE TablesAfter(k - 1) \cup
         {reparent_category(x[1], x[2], x[3]) :
             x \in {y \in TablesAfter(k - 1) \X (1..MatchCats) \X (1..MatchCats) :
                       y[2] # y[3]}}

LineRecords == [ingredient : Ingredients, optional : BOOLEAN]

LineLists == UNION {[1..n -> LineRecords] : n \in 0..MaxLines}

\* the matcher specification starts from a catalogue: a hierarchy built by
\* fix_hierarchy, ingredients assigned to categories, recipes with their lines
InitMatch ==
    /\ cats = 1..MatchCats
    /\ closure \in TablesAfter(MaxReparents)
    /\ lastOp = NoOp
    /\ ingCategories \in [Ingredients -> {S \in SUBSET (1..MatchCats) :
                                              Cardinality(S) <= MaxCatsPerIngredient}]
    /\ inventory = [ui \in Users \X Ingredients |-> "absent"]
    /\ lines \in [Recipes -> LineLists]
    /\ query = NoQuery
    /\ ingRow = [i \in Ingredients |->
                    [exists |-> TRUE, name |-> ToString(i), slug |-> ToString(i),
                     needs_categorization |-> FALSE]]
    /\ suggestions = <<>>
    /\ now = 0
    /\ inflight = {}
    /\ call = NoCall
    /\ txn = NoTxn
    /\ reader = NoReader
    /\ drill = NoDrill
    /\ parse = NoParse
    /\ imp = NoImport

\* IngredientAdmin.manage_inventory_view, POST with ingredient_id and action:
\* the row is created with in_stock = (action == "add") or updated to it.
\* A result page rendered earlier no longer describes the inventory.
ManageInventory(user, i, action) ==
    /\ inventory' = [inventory EXCEPT ![<<user, i>>] =
                         IF action = "add" THEN "in_stock" ELSE "out_of_stock"]
    /\ query' = NoQuery
    /\ UNCHANGED <<cats, closure, lastOp, ingCategories, lines, suggVars, txnVars, importVars>>

\* views.available_recipes: get_makeable_recipes(request.user, max_depth),
\* then _get_ingredient_match_sets(request.user, max_depth) for the colours
GetMakeableRecipes(user, max_depth) ==
    /\ LET sets == get_ingredient_match_sets(closure, ingCategories, inventory,
                                             user, max_depth)
       IN  query' = [user |-> user, max_depth |-> max_depth, ran |-> TRUE,
                     recipes |-> get_makeable_recipes(closure, ingCategories, inventory,
                                                      lines, user, max_depth),
                     exact_match_ids |-> sets.exact,
                     category_match_ids |-> sets.category]
    /\ UNCHANGED <<cats, closure, lastOp, ingCategories, inventory, lines, suggVars, txnVars, importVars>>

NextMatch ==
    \/ \E u \in Users, i \in Ingredients, a \in {"add", "remove"} : ManageInventory(u, i, a)
    \/ \E u \in Users, d \in Depths : GetMakeableRecipes(u, d)

SpecMatch == InitMatch /\ [][NextMatch]_vars

\* the suggestion specification starts from a catalogue with the hierarchy
\* fix_hierarchy makes of two categories (1 under 2) and one imported,
\* uncategorized ingredient
InitSugg ==
    /\ cats = 1..SuggCats
    /\ closure = reparent_category({Row(c, c, 0) : c \in 1..SuggCats}, 1, 2)
    /\ lastOp = NoOp
    /\ ingCategories = [i \in Ingredients |-> {}]
    /\ inventory = [ui \in Users \X Ingredients |-> "absent"]
    /\ lines = [r \in Recipes |-> <<>>]
    /\ query = NoQuery
    /\ ingRow = [i \in Ingredients |->
                    IF i = 1
                    THEN [exists |-> TRUE, name |-> "Lime Juice", slug |-> "lime-juice",
                          needs_categorization |-> TRUE]
                    ELSE NoIngredient]
    /\ suggestions = <<>>
    /\ now = 0
    /\ inflight = {}
    /\ call = NoCall
    /\ txn = NoTxn
    /\ reader = NoReader
    /\ drill = NoDrill
    /\ parse = NoParse
    /\ imp = NoImport

\* IngredientAdmin.trigger_categorization for a selection of one ingredient:
\* categorize_ingredient(ingredient), in which
\* suggest_category_for_ingredient does o; a CategorizationError is caught
\* and shown as a message
TriggerCategorization(i, o) ==
    /\ ingRow[i].exists
    /\ LET c == categorize_ingredient(suggestions, i, o)
       IN  /\ Len(c.suggestions) <= MaxSuggestions
           /\ suggestions' = c.suggestions
           /\ call' = [NoCall EXCEPT !.op = "categorize", !.ingredient = i,
                           !.raised = c.raised, !.result = c.result,
                           !.outcome = o, !.before = Before(i, 0, "")]
    /\ UNCHANGED <<cats, closure, lastOp, matchVars, ingRow, now, inflight, txnVars, importVars>>

\* import_processor.get_or_create_ingredient(name), in which
\* suggest_category_for_ingredient does o if the name is new (and is not
\* called if it is not: o is then Raised, once)
GetOrCreateIngredient(name, o) ==
    /\ IF MatchingIngredients(ingRow, name) = {}
       THEN \E i \in Ingredients : ~ingRow[i].exists
       ELSE o = Raised
    /\ LET g == get_or_create_ingredient(ingRow, suggestions, name, o)
       IN  /\ Len(g.suggestions) <= MaxSuggestions
           /\ ingRow' = g.ingRow
           /\ suggestions' = g.suggestions
           /\ call' = [NoCall EXCEPT !.op = "get_or_create", !.name = name,
                           !.ingredient = g.ingredient,
                           !.raised = g.raised, !.created = g.created,
                           !.outcome = o, !.before = Before(g.ingredient, 0, name)]
    /\ UNCHANGED <<cats, closure, lastOp, matchVars, now, inflight, txnVars, importVars>>

\* IngredientCategorySuggestionAdmin.approve_selected / reject_selected for
\* a selection of one suggestion, up to the evaluation of
\* queryset.filter(status=PENDING): a pending suggestion is loaded for the
\* loop, any other is skipped ("No pending suggestions to ...")
SelectPending(op, k, user) ==
    /\ k \in DOMAIN suggestions
    /\ Cardinality(inflight) < MaxInFlight
    /\ inflight' = IF suggestions[k].status = "pending"
                   THEN inflight \cup {[op |-> op, suggestion |-> k, user |-> user]}
                   ELSE inflight
    /\ call' = [NoCall EXCEPT !.op = "select", !.suggestion = k, !.user = user,
                    !.before = Before(0, k, "")]
    /\ UNCHANGED <<cats, closure, lastOp, matchVars, ingRow, suggestions, now, txnVars, importVars>>

\* approve_selected / reject_selected, the loop body: suggestion.approve or
\* suggestion.reject on the instance the queryset loaded. Requests of other
\* admins may have been served since the queryset was evaluated.
ReviewLoaded(r, fail) ==
    /\ r \in inflight
    /\ now < MaxClock
    /\ r.op = "reject" => fail \in {0, 3}
    /\ LET res == IF r.op = "approve"
                  THEN approve(ingCategories, ingRow, suggestions,
                               r.suggestion, r.user, now + 1, fail)
                  ELSE reject(ingCategories, ingRow, suggestions,
                              r.suggestion, r.user, now + 1, fail)
       IN  /\ ingCategories' = res.ingCategories
           /\ ingRow' = res.ingRow
           /\ suggestions' = res.suggestions
           /\ call' = [NoCall EXCEPT !.op = r.op, !.suggestion = r.suggestion,
                           !.ingredient = suggestions[r.suggestion].ingredient,
                           !.user = r.user, !.time = now + 1, !.fail = fail,
                           !.raised = res.raised,
                           !.before = Before(suggestions[r.suggestion].ingredient,
                                             r.suggestion, "")]
    /\ now' = now + 1
    /\ inflight' = inflight \ {r}
    /\ UNCHANGED <<cats, closure, lastOp, inventory, lines, query, txnVars, importVars>>

NextImport ==
    \/ \E o \in suggest_category_for_ingredient(closure, cats) :
           \E name \in Names : GetOrCreateIngredient(name, o)
    \/ \E o \in suggest_category_for_ingredient(closure, cats) :
           \E i \in Ingredients : TriggerCategorization(i, o)

\* recipe imports and categorization requests
SpecImport == InitSugg /\ [][NextImport]_vars

NextSugg ==
    \/ \E o \in suggest_category_for_ingredient(closure, cats) :
           \E i \in Ingredients : TriggerCategorization(i, o)
    \/ \E op \in {"approve", "reject"}, k \in 1..MaxSuggestions, u \in Users :
           SelectPending(op, k, u)
    \/ \E r \in inflight, fail \in FailAt : ReviewLoaded(r, fail)

\* categorization requests and reviews
SpecSugg == InitSugg /\ [][NextSugg]_vars

\* the drill-down specification starts from a hierarchy built by fix_hierarchy
InitDrill ==
    /\ cats = 1..MatchCats
    /\ closure \in TablesAfter(MaxReparents)
    /\ lastOp = NoOp
    /\ ingCategories = [i \in Ingredients |-> {}]
    /\ inventory = [ui \in Users \X Ingredients |-> "absent"]
    /\ lines = [r \in Recipes |-> <<>>]
    /\ query = NoQuery
    /\ ingRow = [i \in Ingredients |->
                    [exists |-> TRUE, name |-> ToString(i), slug |-> ToString(i),
                     needs_categorization |-> TRUE]]
    /\ suggestions = <<>>
    /\ now = 0
    /\ inflight = {}
    /\ call = NoCall
    /\ txn = NoTxn
    /\ reader = NoReader
    /\ drill = NoDrill
    /\ parse = NoParse
    /\ imp = NoImport

\* suggest_category_for_ingredient(ingredient) returns (category, ...), the
\* language model having answered each prompt
SuggestCategory(path) ==
    /\ drill' = [ran |-> TRUE, raised |-> FALSE, path |-> path,
                  category |-> IF path = <<>> THEN 0 ELSE path[Len(path)]]
    /\ UNCHANGED <<cats, closure, lastOp, matchVars, suggVars, txnVars, parse, imp>>

\* suggest_category_for_ingredient(ingredient): _call_llm raises
\* CategorizationError (connection error, timeout, no JSON in the answer)
SuggestCategoryFails ==
    /\ get_top_level_categories(closure, cats) # {}
    /\ drill' = [NoDrill EXCEPT !.ran = TRUE, !.raised = TRUE]
    /\ UNCHANGED <<cats, closure, lastOp, matchVars, suggVars, txnVars, parse, imp>>

NextDrill ==
    \/ \E path \in suggest_category_path(closure, cats) : SuggestCategory(path)
    \/ SuggestCategoryFails

\* categorization calls against a fixed hierarchy
SpecDrill == InitDrill /\ [][NextDrill]_vars

\* the ingredient lists the parser can give a recipe
ParsedIngredientLists ==
    UNION {[1..n -> ParsedNames] : n \in 0..MaxParsedIngredients}

\* the "recipes" list of parsed_data after step 2
ParsedRecipes ==
    UNION {{[r \in 1..n |-> [name |-> ToString(r), ingredients |-> f[r]]]
               : f \in [1..n -> ParsedIngredientLists]}
           : n \in 0..MaxParsedRecipes}

\* the matching specification starts from a catalogue that holds any of the
\* catalogue names
InitParse ==
    /\ cats = {}
    /\ closure = {}
    /\ lastOp = NoOp
    /\ ingCategories = [i \in Ingredients |-> {}]
    /\ inventory = [ui \in Users \X Ingredients |-> "absent"]
    /\ lines = [r \in Recipes |-> <<>>]
    /\ query = NoQuery
    /\ \E present \in SUBSET (DOMAIN CatalogueNames) :
           ingRow = [i \in DOMAIN CatalogueNames |->
                        IF i \in present
                        THEN [exists |-> TRUE, name |-> CatalogueNames[i],
                              slug |-> slugify(CatalogueNames[i]),
                              needs_categorization |-> FALSE]
                        ELSE NoIngredient]
    /\ suggestions = <<>>
    /\ now = 0
    /\ inflight = {}
    /\ call = NoCall
    /\ txn = NoTxn
    /\ reader = NoReader
    /\ drill = NoDrill
    /\ parse = NoParse
    /\ imp = NoImport

\* parse_recipe_image, step 3: match_ingredients(parsed) on the parsed data
\* of one image, the verifier answering as the oracle says
MatchIngredients(recipes, oracle) ==
    /\ ~parse.ran
    /\ LET res == match_ingredients(existing_ingredients(ingRow), recipes, oracle)
       IN  parse' = [ran |-> TRUE, existing |-> existing_ingredients(ingRow),
                     parsed |-> recipes, oracle |-> oracle,
                     recipes |-> res.recipes, matching_log |-> res.matching_log,
                     steps |-> res.steps]
    /\ UNCHANGED <<cats, closure, lastOp, matchVars, suggVars, txnVars, drill, imp>>

NextParse ==
    /\ ~parse.ran
    /\ \E recipes \in ParsedRecipes, oracle \in Oracles(existing_ingredients(ingRow)) :
           MatchIngredients(recipes, oracle)

\* the matching step of one image import
SpecParse == InitParse /\ [][NextParse]_vars

\* the "recipes" list of the parsed data of a reviewed import
ImportRecipes ==
    UNION {[1..n -> [name : ImportTitles,
                     ingredients : UNION {[1..m -> ImportNames]
                                             : m \in 0..MaxParsedIngredients}]]
           : n \in 0..MaxParsedRecipes}

\* the approval specification starts from a parsed import waiting for review,
\* a Recipe table that may hold a Daiquiri and an Ingredient table that may
\* hold Rum; there are no categories
InitApprove ==
    /\ cats = {}
    /\ closure = {}
    /\ lastOp = NoOp
    /\ ingCategories = [i \in Ingredients |-> {}]
    /\ inventory = [ui \in Users \X Ingredients |-> "absent"]
    /\ lines = [r \in Recipes |-> <<>>]
    /\ query = NoQuery
    /\ ingRow \in {[i \in Ingredients |-> NoIngredient],
                    [i \in Ingredients |->
                        IF i = 1
                        THEN [exists |-> TRUE, name |-> "Rum", slug |-> slugify("Rum"),
                              needs_categorization |-> FALSE]
                        ELSE NoIngredient]}
    /\ suggestions = <<>>
    /\ now = 0
    /\ inflight = {}
    /\ call = NoCall
    /\ txn = NoTxn
    /\ reader = NoReader
    /\ drill = NoDrill
    /\ parse = NoParse
    /\ \E recipes \in ImportRecipes,
          rows \in {{}, {[name |-> "Daiquiri", ingredients |-> <<>>]}} :
           imp = [NoImport EXCEPT !.status = "parsed", !.parsed = recipes,
                                  !.recipeRows = rows]

\* RecipeImportAdmin.approve_selected on the import: the loop body runs for
\* it when its status is parsed
ApproveSelected(o) ==
    /\ imp.status = "parsed"
    /\ now < MaxClock
    /\ LET db == approve_recipes(
                     [ingRow |-> ingRow, suggestions |-> suggestions, import |-> imp,
                      raised |-> FALSE, error |-> ""], 1, o, now + 1)
       IN  /\ ingRow' = db.ingRow
           /\ suggestions' = db.suggestions
           /\ imp' = [db.import EXCEPT
                          !.ran = TRUE,
                          !.approved = IF db.raised THEN 0 ELSE 1,
                          !.errors = IF db.raised THEN <<db.error>> ELSE <<>>]
    /\ now' = now + 1
    /\ UNCHANGED <<cats, closure, lastOp, matchVars, inflight, call, txnVars, drill, parse>>

NextApprove ==
    \E o \in suggest_category_for_ingredient(closure, cats) : ApproveSelected(o)

\* the review of one import
SpecApprove == InitApprove /\ [][NextApprove]_vars

\* the transaction specification starts from a catalogue of top-level
\* categories, ingredient i assigned to category i, user 1 with an inventory
\* row for ingredient 1 (in stock or not) and recipes that require ingredient 2
InitTxn ==
    /\ cats = 1..MatchCats
    /\ closure = {Row(c, c, 0) : c \in 1..MatchCats}
    /\ lastOp = NoOp
    /\ ingCategories = [i \in Ingredients |-> {i} \cap (1..MatchCats)]
    /\ inventory \in {[ui \in Users \X Ingredients |->
                          IF ui[2] = 1 THEN s ELSE "absent"]
                      : s \in {"in_stock", "out_of_stock"}}
    /\ lines = [r \in Recipes |-> <<[ingredient |-> 2, optional |-> FALSE]>>]
    /\ query = NoQuery
    /\ ingRow = [i \in Ingredients |->
                    [exists |-> TRUE, name |-> ToString(i), slug |-> ToString(i),
                     needs_categorization |-> FALSE]]
    /\ suggestions = <<>>
    /\ now = 0
    /\ inflight = {}
    /\ call = NoCall
    /\ txn = NoTxn
    /\ reader = NoReader
    /\ drill = NoDrill
    /\ parse = NoParse
    /\ imp = NoImport

\* Command.handle: "with transaction.atomic():" is entered
BeginTxn ==
    /\ txn.state # "active"
    /\ txn.runs < MaxTxns
    /\ txn' = [NoTxn EXCEPT !.state = "active", !.start = closure, !.work = closure,
                            !.runs = txn.runs + 1]
    /\ UNCHANGED <<cats, closure, lastOp, matchVars, suggVars, reader, importVars>>

\* Command.fix_hierarchy calls reparent_category(child, parent), which reads
\* the table the transaction sees and works out the rows to get_or_create
BeginReparent(c, p) ==
    /\ txn.state = "active" /\ txn.todo = {}
    /\ txn.reparents < MaxTxnReparents
    /\ c \in cats /\ p \in cats /\ c # p
    /\ txn' = [txn EXCEPT !.todo = reparent_category(txn.work, c, p) \ txn.work,
                          !.reparents = @ + 1]
    /\ UNCHANGED <<cats, closure, lastOp, matchVars, suggVars, reader, importVars>>

\* reparent_category: one get_or_create of the loops creates its row
InsertRow(row) ==
    /\ txn.state = "active" /\ row \in txn.todo
    /\ LET w == insert(closure, txn.work, row)
       IN  /\ closure' = w.committed
           /\ txn' = [txn EXCEPT !.work = w.work, !.todo = @ \ {row},
                                 !.inserted = @ \cup {row}]
    /\ UNCHANGED <<cats, lastOp, matchVars, suggVars, reader, importVars>>

\* reparent_category: one get_or_create raises; the exception leaves the
\* "with transaction.atomic()" block of handle, which rolls back
InsertFails(row) ==
    /\ txn.state = "active" /\ row \in txn.todo
    /\ txn' = [txn EXCEPT !.state = "rolled_back", !.work = {}, !.todo = {}]
    /\ UNCHANGED <<cats, closure, lastOp, matchVars, suggVars, reader, importVars>>

\* Command.handle: fix_hierarchy has returned and the block is left; a dry
\* run has set_rollback(True)
EndTxn(dry_run) ==
    /\ txn.state = "active" /\ txn.todo = {}
    /\ closure' = IF dry_run THEN closure ELSE txn.work
    /\ txn' = [txn EXCEPT !.state = IF dry_run THEN "rolled_back" ELSE "committed",
                          !.work = {}]
    /\ UNCHANGED <<cats, lastOp, matchVars, suggVars, reader, importVars>>

\* get_makeable_recipes(user, max_depth), lines 24-48: the user's in-stock
\* ingredients are read. With none the call returns Recipe.objects.none();
\* with max_depth 0 it goes to the recipe query with the exact matches; else
\* the closure table is read next.
StartQuery(user, max_depth) ==
    /\ reader.pc = "idle"
    /\ IF user_ing_ids(inventory, user) = {}
       THEN /\ query' = [NoQuery EXCEPT !.user = user, !.max_depth = max_depth,
                                        !.ran = TRUE]
            /\ reader' = NoReader
       ELSE /\ reader' = [NoReader EXCEPT
                              !.pc = IF max_depth = 0 THEN "recipes" ELSE "ancestors",
                              !.user = user, !.max_depth = max_depth]
            /\ UNCHANGED query
    /\ UNCHANGED <<cats, closure, lastOp, ingCategories, inventory, lines, suggVars, txn, importVars>>

\* get_makeable_recipes, lines 50-54: the query for user_ancestor_categories,
\* which the database answers from the committed table
ReadAncestors ==
    /\ reader.pc = "ancestors"
    /\ reader' = [reader EXCEPT
           !.pc = "descendants",
           !.ancestors = user_ancestor_categories(closure, ingCategories,
                             user_ing_ids(inventory, reader.user), reader.max_depth - 1),
           !.first = ReadOf(closure)]
    /\ UNCHANGED <<cats, closure, lastOp, matchVars, suggVars, txn, importVars>>

\* get_makeable_recipes, lines 59-63: the query for all_satisfiable_categories
ReadDescendants ==
    /\ reader.pc = "descendants"
    /\ reader' = [reader EXCEPT
           !.pc = "recipes",
           !.categories = all_satisfiable_categories(closure, reader.ancestors),
           !.second = ReadOf(closure)]
    /\ UNCHANGED <<cats, closure, lastOp, matchVars, suggVars, txn, importVars>>

\* get_makeable_recipes, lines 66-98: the ingredients of those categories,
\* the exact matches and the recipe query
FinishQuery ==
    /\ reader.pc = "recipes"
    /\ query' = [NoQuery EXCEPT
                     !.user = reader.user, !.max_depth = reader.max_depth, !.ran = TRUE,
                     !.recipes = {r \in Recipes :
                         RecipeFilter(lines[r],
                             {i \in Ingredients : ingCategories[i] \cap reader.categories # {}}
                                 \cup user_ing_ids(inventory, reader.user))}]
    /\ reader' = NoReader
    /\ UNCHANGED <<cats, closure, lastOp, ingCategories, inventory, lines, suggVars, txn, importVars>>

NextTxn ==
    \/ BeginTxn
    \/ \E c, p \in 1..MatchCats : BeginReparent(c, p)
    \/ \E row \in txn.todo : InsertRow(row)
    \/ \E row \in txn.todo : InsertFails(row)
    \/ \E dry_run \in BOOLEAN : EndTxn(dry_run)
    \/ \E u \in Users, d \in Depths : StartQuery(u, d)
    \/ ReadAncestors
    \/ ReadDescendants
    \/ FinishQuery

\* the command beside matcher queries
SpecTxn == InitTxn /\ [][NextTxn]_vars

----------------------------------------------------------------------------
(* Closure-table claims *)

\* C2: for every category C, get_ancestors(C, include_self=True) lists C
\* itself first at depth 0 and then its ancestors at depths 1, 2, 3, ... with
\* no gap and no two ancestors at the same depth.
C2_AncestorsStrictlyIncreasing ==
    \A c \in cats : \A s \in get_ancestors(closure, c, TRUE) :
        /\ Len(s) >= 1
        /\ s[1].ancestor = c
        /\ \A i \in 1..Len(s) : s[i].depth = i - 1

\* the rows reparent_category(C, P) is specified to add, from the table before
ReparentTarget(before, c, p) ==
    {Row(x, a, DepthOrZero(before, x, c) + 1 + DepthOrZero(before, p, a)) :
        <<x, a>> \in DescendantSet(before, c, TRUE) \X AncestorSet(before, p, TRUE)}

C4_ReparentIdempotent ==
    /\ lastOp.op = "reparent" =>
           reparent_category(closure, lastOp.child, lastOp.parent) = closure
    /\ \A c, p \in cats :
           reparent_category(reparent_category(closure, c, p), c, p)
               = reparent_category(closure, c, p)

\* a reparent of a category with descendants under a parent with ancestors
\* has added rows
C4_Witness ==
    /\ lastOp.op = "reparent"
    /\ Cardinality(closure \ lastOp.before) >= 4

\* C5: the table is transitively complete: whenever a row (C, P, 1) exists,
\* then for every row (P, A, d) there is a row (C, A, d + 1).
C5_TransitivelyComplete ==
    \A r \in closure : r.depth = 1 =>
        \A q \in closure : q.category = r.ancestor =>
            Row(r.category, q.ancestor, q.depth + 1) \in closure

\* C6: every category has at most one closure row at depth 1.
C6_AtMostOneParent ==
    \A c \in cats : Cardinality({r \in closure : r.category = c /\ r.depth = 1}) <= 1

\* C7: every category has exactly one row with itself as ancestor, at depth
\* 0, and no (category, ancestor) pair has more than one row.
C7_SelfRowAndUniquePairs ==
    /\ \A c \in cats : Links(closure, c, c) = {Row(c, c, 0)}
    /\ \A c, a \in Categories : Cardinality(Links(closure, c, a)) <= 1

\* a category that was reparented under one of its own descendants: the
\* reparent was asked to link the category to itself
C7_Witness ==
    /\ lastOp.op = "reparent"
    /\ lastOp.child \in AncestorSet(lastOp.before, lastOp.parent, TRUE)
    /\ closure # lastOp.before

----------------------------------------------------------------------------
(* Matcher claims *)

Required(ls) == {ls[k].ingredient : k \in {j \in DOMAIN ls : ~ls[j].optional}}

Makeable(user, max_depth) ==
    get_makeable_recipes(closure, ingCategories, inventory, lines, user, max_depth)

Satisfiable(user, max_depth) ==
    satisfiable_ids(closure, ingCategories, inventory, user, max_depth)

\* C1: get_makeable_recipes returns a recipe if and only if the recipe has
\* at least one non-optional line and every non-optional line's ingredient
\* is in the satisfiable set of that user and max_depth; a recipe whose
\* lines are all optional is never returned.
C1_MakeableIffRequiredSatisfiable ==
    query.ran =>
        /\ query.recipes =
              {r \in Recipes :
                  /\ \E k \in DOMAIN lines[r] : ~lines[r][k].optional
                  /\ \A k \in DOMAIN lines[r] : ~lines[r][k].optional =>
                         lines[r][k].ingredient \in Satisfiable(query.user, query.max_depth)}
        /\ \A r \in query.recipes : \E k \in DOMAIN lines[r] : ~lines[r][k].optional

\* a recipe was returned although one of its optional lines asks for an
\* ingredient that is not satisfiable
C1_Witness ==
    /\ query.ran
    /\ \E r \in query.recipes : \E k \in DOMAIN lines[r] :
           /\ lines[r][k].optional
           /\ lines[r][k].ingredient \notin Satisfiable(query.user, query.max_depth)

\* C8: for the same user, inventory, recipes and closure table the result
\* grows with max_depth: result(0) is a subset of result(1), which is a
\* subset of result(2); a recipe whose required ingredients are all in stock
\* is returned at every depth.
C8_MonotoneInDepth ==
    \A u \in Users :
        /\ Makeable(u, 0) \subseteq Makeable(u, 1)
        /\ Makeable(u, 1) \subseteq Makeable(u, 2)
        /\ \A r \in Recipes :
               (Required(lines[r]) # {} /\ Required(lines[r]) \subseteq user_ing_ids(inventory, u))
                   => \A d \in Depths : r \in Makeable(u, d)

\* a query at depth 2 returned a recipe that depth 1 does not return
C8_Witness ==
    /\ query.ran /\ query.max_depth = 2
    /\ \E r \in query.recipes : r \notin Makeable(query.user, 1)

\* C9: with max_depth = 0 the satisfiable set is exactly the ingredients the
\* user has an inventory row for with in_stock=True; a row with
\* in_stock=False counts as absent and no other ingredient is satisfiable.
C9_ExactMatchOnly ==
    /\ \A u \in Users :
           Satisfiable(u, 0) = {i \in Ingredients : inventory[<<u, i>>] = "in_stock"}
    /\ (query.ran /\ query.max_depth = 0) =>
           query.recipes =
               {r \in Recipes :
                   /\ Required(lines[r]) # {}
                   /\ \A i \in Required(lines[r]) : inventory[<<query.user, i>>] = "in_stock"}

\* a depth-0 query returned nothing for a recipe whose required ingredient
\* has an in_stock=False row and shares a category with an in-stock one
C9_Witness ==
    /\ query.ran /\ query.max_depth = 0 /\ query.recipes = {}
    /\ \E r \in Recipes : \E i \in Required(lines[r]) :
           /\ inventory[<<query.user, i>>] = "out_of_stock"
           /\ \E j \in user_ing_ids(inventory, query.user) :
                  ingCategories[i] \cap ingCategories[j] # {}

\* ingredient x is only in category l, the user's only in-stock ingredient y
\* is only in category n, l and n are direct children of g and neither has
\* a closure row to the other
SiblingCase(u, x, y, l, n, g) ==
    /\ x # y /\ l # n
    /\ ingCategories[x] = {l} /\ ingCategories[y] = {n}
    /\ user_ing_ids(inventory, u) = {y}
    /\ Row(l, g, 1) \in closure /\ Row(n, g, 1) \in closure
    /\ Links(closure, l, n) = {} /\ Links(closure, n, l) = {}

\* C10: in the sibling case the ingredient is satisfiable exactly when
\* max_depth >= 2; a recipe requiring only it is not returned at max_depth 1
\* and is returned at max_depth 2.
C10_SiblingNeedsDepthTwo ==
    \A u \in Users : \A x, y \in Ingredients : \A l, n, g \in cats :
        SiblingCase(u, x, y, l, n, g) =>
            /\ \A d \in Depths : x \in Satisfiable(u, d) <=> d >= 2
            /\ \A r \in Recipes : Required(lines[r]) = {x} =>
                   r \notin Makeable(u, 1) /\ r \in Makeable(u, 2)

\* a depth-2 query returned a recipe that requires the sibling ingredient
C10_Witness ==
    /\ query.ran /\ query.max_depth = 2
    /\ \E x, y \in Ingredients : \E l, n, g \in cats :
           /\ SiblingCase(query.user, x, y, l, n, g)
           /\ \E r \in query.recipes : Required(lines[r]) = {x}

\* the ingredients that are in stock or share a directly assigned category
\* with an in-stock ingredient
SameCategoryAsStock(u) ==
    {x \in Ingredients : \E y \in user_ing_ids(inventory, u) :
        x = y \/ ingCategories[x] \cap ingCategories[y] # {}}

\* C11: with max_depth = 1 every ingredient directly assigned to a category
\* that an in-stock ingredient of the user is directly assigned to is
\* satisfiable, and a recipe whose required ingredients are all such (or in
\* stock) is returned although the user does not have the exact ingredient.
C11_SameCategorySatisfiable ==
    /\ \A u \in Users :
           /\ SameCategoryAsStock(u) \subseteq Satisfiable(u, 1)
           /\ \A r \in Recipes :
                  (Required(lines[r]) # {} /\ Required(lines[r]) \subseteq SameCategoryAsStock(u))
                      => r \in Makeable(u, 1)
    /\ (query.ran /\ query.max_depth = 1) =>
           \A r \in Recipes :
               (Required(lines[r]) # {}
                   /\ Required(lines[r]) \subseteq SameCategoryAsStock(query.user))
                   => r \in query.recipes

\* a depth-1 query returned a recipe that requires an ingredient the user
\* does not have, which shares its category with an in-stock ingredient
C11_Witness ==
    /\ query.ran /\ query.max_depth = 1
    /\ \E r \in query.recipes : \E x \in Required(lines[r]) :
           /\ x \notin user_ing_ids(inventory, query.user)
           /\ \E y \in user_ing_ids(inventory, query.user) :
                  ingCategories[x] \cap ingCategories[y] # {}

\* the non-optional lines of a recipe, in order
RequiredLines(ls) == SelectSeq(ls, LAMBDA l : ~l.optional)

\* C12: adding, removing or changing optional lines of a recipe never
\* changes whether get_makeable_recipes returns it: two line lists with the
\* same non-optional lines give the same answer for every user, inventory
\* and max_depth.
C12_OptionalLinesIgnored ==
    \A r \in Recipes : \A ls \in LineLists :
        RequiredLines(ls) = RequiredLines(lines[r]) =>
            \A u \in Users : \A d \in Depths :
                (r \in get_makeable_recipes(closure, ingCategories, inventory,
                                            [lines EXCEPT ![r] = ls], u, d))
                    <=> (r \in Makeable(u, d))

\* a query returned a recipe with a required line and an optional line
\* whose ingredient is not satisfiable
C12_Witness ==
    /\ query.ran
    /\ \E r \in query.recipes : \E j, k \in DOMAIN lines[r] :
           /\ lines[r][j].optional /\ ~lines[r][k].optional
           /\ lines[r][j].ingredient \notin Satisfiable(query.user, query.max_depth)
           /\ Len(lines[r]) = MaxLines

----------------------------------------------------------------------------
(* Suggestion claims *)

\* C13: approving a pending suggestion for (ingredient I, category X) adds
\* X to I's directly assigned categories (nothing changes there if X was
\* one of them), sets I.needs_categorization to False, sets the suggestion's
\* status to approved and records the reviewer and the review timestamp.
C13_ApproveApplies ==
    (call.op = "approve" /\ call.before.row.status = "pending" /\ ~call.raised) =>
        /\ call.ingredient = call.before.row.ingredient
        /\ ingCategories[call.ingredient]
              = call.before.categories \cup {call.before.row.suggested_category}
        /\ ~ingRow[call.ingredient].needs_categorization
        /\ suggestions[call.suggestion] =
              [call.before.row EXCEPT !.status = "approved",
                                      !.reviewed_by = call.user,
                                      !.reviewed_at = call.time]
        /\ call.user \in Users /\ call.time = now

\* a pending suggestion was approved whose category the ingredient already had
C13_Witness ==
    /\ call.op = "approve" /\ call.before.row.status = "pending" /\ ~call.raised
    /\ call.before.row.suggested_category \in call.before.categories
    /\ call.before.needs_categorization

\* C14: approve or reject applied to a suggestion whose status is not
\* pending fails and changes neither the suggestion (status, reviewer,
\* timestamp) nor the ingredient, so a suggestion's status changes at most
\* once.
C14_StatusTerminal ==
    (call.op \in {"approve", "reject"} /\ call.before.row.status # "pending") =>
        /\ call.raised
        /\ suggestions[call.suggestion] = call.before.row
        /\ ingCategories[call.ingredient] = call.before.categories
        /\ ingRow[call.ingredient].needs_categorization = call.before.needs_categorization

\* C15: at most one suggestion with status pending exists for any
\* (ingredient, category) pair, and categorize_ingredient returns the
\* existing pending suggestion of the pair instead of creating a second one.
C15_OnePendingPerPair ==
    /\ \A i \in Ingredients : \A c \in cats :
           Cardinality(PendingFor(suggestions, i, c)) <= 1
    /\ (/\ call.op = "categorize"
        /\ ~call.outcome.raised
        /\ call.outcome.category # 0
        /\ call.outcome.confidence >= MIN_CONFIDENCE
        /\ PendingFor(call.before.suggestions, call.ingredient, call.outcome.category) # {})
       => /\ ~call.raised
          /\ suggestions = call.before.suggestions
          /\ PendingFor(suggestions, call.ingredient, call.outcome.category) = {call.result}

\* categorize_ingredient was asked for a pair that had a pending suggestion
\* and a reviewed one
C15_Witness ==
    /\ call.op = "categorize" /\ call.result # 0
    /\ suggestions = call.before.suggestions
    /\ \E k \in DOMAIN suggestions :
           /\ suggestions[k].ingredient = call.ingredient
           /\ suggestions[k].suggested_category = call.outcome.category
           /\ suggestions[k].status # "pending"

\* C17: if any write performed by approve fails (adding the category,
\* saving the ingredient, or saving the suggestion), the ingredient's
\* categories, its needs_categorization flag and the suggestion's status are
\* all left exactly as they were before the call.
C17_ApproveAtomic ==
    (call.op = "approve" /\ call.fail # 0) =>
        /\ ingCategories[call.ingredient] = call.before.categories
        /\ ingRow[call.ingredient].needs_categorization = call.before.needs_categorization
        /\ suggestions[call.suggestion].status = call.before.row.status

\* C19: when the categorization returns a category with confidence below
\* MIN_CONFIDENCE, categorize_ingredient creates no suggestion row of any
\* status and returns None.
C19_LowConfidenceNoSuggestion ==
    (/\ call.op = "categorize"
     /\ ~call.outcome.raised
     /\ call.outcome.category # 0
     /\ call.outcome.confidence < MIN_CONFIDENCE)
    => /\ call.result = 0
       /\ ~call.raised
       /\ suggestions = call.before.suggestions

\* categorize_ingredient was given a category with a confidence one
\* hundredth below the threshold for an ingredient that has suggestions
C19_Witness ==
    /\ call.op = "categorize"
    /\ call.outcome.category # 0
    /\ call.outcome.confidence = MIN_CONFIDENCE - 1
    /\ \E k \in DOMAIN suggestions : suggestions[k].ingredient = call.ingredient

\* C20: when the categorization raises during get_or_create_ingredient for
\* a name that matches no existing ingredient, the new ingredient row is
\* still created with needs_categorization=True and returned with
\* created=True, no suggestion is created, and the error does not reach the
\* caller.
C20_CategorizationFailureKeepsIngredient ==
    (call.op = "get_or_create" /\ call.before.matching = {} /\ call.outcome.raised) =>
        /\ ~call.raised
        /\ call.created
        /\ call.ingredient \in Ingredients
        /\ ~call.before.exists
        /\ ingRow[call.ingredient] =
              [exists |-> TRUE, name |-> call.name, slug |-> slugify(call.name),
               needs_categorization |-> TRUE]
        /\ suggestions = call.before.suggestions

\* an import asked for a new name while the language model was failing
C20_Witness ==
    /\ call.op = "get_or_create" /\ call.before.matching = {} /\ call.outcome.raised
    /\ call.created
    /\ ingRow[call.ingredient].needs_categorization

----------------------------------------------------------------------------
(* Transaction claims *)

\* C16: a reparent, and the whole fix-hierarchy run that contains it, is
\* atomic: if a closure-row insert fails part-way through, none of the rows
\* the run inserted persist and the closure table equals its state before
\* the run started; until the run commits the table is that state too.
C16_ReparentAtomic ==
    /\ txn.state = "rolled_back" =>
           closure = txn.start /\ (txn.inserted \ txn.start) \cap closure = {}
    /\ txn.state = "active" => closure = txn.start
    /\ txn.state = "committed" => closure = txn.start \cup txn.inserted

\* an insert failed after the run had inserted rows of two reparents
C16_Witness ==
    /\ txn.state = "rolled_back"
    /\ txn.reparents = MaxTxnReparents
    /\ Cardinality(txn.inserted) >= 2

\* C18: under read-committed isolation a get_makeable_recipes call beside a
\* reparent transaction never observes a partially applied reparent: each
\* of its closure-table reads sees either none of the rows the transaction
\* inserts or, once it has committed, all of them.
C18_ReadsSeeNoneOrAll ==
    \A rd \in {reader.first, reader.second} :
        rd.ran => \/ rd.visible = {}
                  \/ rd.hidden = {} /\ rd.state = "committed"

\* one call read the table before the transaction's rows and then with all
\* of them
C18_Witness ==
    /\ reader.first.ran /\ reader.second.ran
    /\ reader.first.state = "active" /\ reader.first.hidden # {}
    /\ reader.second.state = "committed" /\ Cardinality(reader.second.visible) >= 2

----------------------------------------------------------------------------
(* Further closure-table claims *)

\* C25: for all categories C and D of a reachable closure table, D is in
\* get_descendants(C, include_self=False) if and only if C is in
\* get_ancestors(D, include_self=False).
C25_DescendantsMirrorAncestors ==
    \A c, d \in cats :
        /\ d \in DescendantSet(closure, c, FALSE) <=> c \in AncestorSet(closure, d, FALSE)
        /\ (\E s \in get_descendants(closure, c, FALSE) : \E k \in DOMAIN s : s[k].category = d)
               <=> (\E s \in get_ancestors(closure, d, FALSE) : \E k \in DOMAIN s : s[k].ancestor = c)

\* a reparent has given a category a descendant two levels down
C25_Witness ==
    /\ lastOp.op = "reparent"
    /\ \E r \in closure \ lastOp.before :
           r.depth = 2 /\ r.category \in DescendantSet(closure, r.ancestor, FALSE)

\* C28: whenever reparent_category(C, P) with C different from P returns,
\* the closure table contains the row (C, P, 1), whatever rows C had before
\* the call.
C28_ReparentMakesDirectChild ==
    lastOp.op = "reparent" => Row(lastOp.child, lastOp.parent, 1) \in closure

\* categories p and g take part in no closure row but their self rows, and
\* c has no ancestor but itself
FreshTriple(c, p, g) ==
    /\ c # p /\ p # g /\ c # g
    /\ \A r \in closure : (r.category \in {p, g} \/ r.ancestor \in {p, g})
                              => r.category = r.ancestor
    /\ AncestorSet(closure, c, TRUE) = {c}

\* C29: from three categories C, P, G with only self rows (and any
\* descendants of C), reparent(C, P) then reparent(P, G) leaves exactly the
\* closure table that reparent(P, G) then reparent(C, P) leaves.
C29_NestedReparentsCommute ==
    \A c, p, g \in cats :
        FreshTriple(c, p, g) =>
            reparent_category(reparent_category(closure, c, p), p, g)
                = reparent_category(reparent_category(closure, p, g), c, p)

\* the second reparent of such a pair has run, in the order (C, P), (P, G),
\* on a C that had a descendant: the descendant is three levels below G
C29_Witness ==
    /\ lastOp.op = "reparent"
    /\ \E c, d \in cats :
           /\ c # d
           /\ Row(c, lastOp.child, 1) \in lastOp.before
           /\ Row(d, c, 1) \in lastOp.before
           /\ AncestorSet(lastOp.before, lastOp.child, TRUE) = {lastOp.child}
           /\ DescendantSet(lastOp.before, lastOp.parent, TRUE) = {lastOp.parent}
           /\ AncestorSet(lastOp.before, lastOp.parent, TRUE) = {lastOp.parent}
           /\ Row(d, lastOp.parent, 3) \in closure
           /\ closure = reparent_category(
                            reparent_category(
                                lastOp.before \ {r \in lastOp.before :
                                    r.ancestor = lastOp.child /\ r.depth >= 1},
                                lastOp.child, lastOp.parent),
                            c, lastOp.child)

----------------------------------------------------------------------------
(* Further matcher claims *)

\* C24: _get_ingredient_match_sets(user, max_depth) returns (exact_ids,
\* category_ids) where exact_ids is the user's in-stock ingredient set,
\* category_ids is disjoint from exact_ids, and their union is the
\* satisfiable ingredient set get_makeable_recipes uses for the same user
\* and max_depth.
C24_MatchSetsPartitionSatisfiable ==
    /\ query.ran =>
           /\ query.exact_match_ids = user_ing_ids(inventory, query.user)
           /\ query.exact_match_ids \cap query.category_match_ids = {}
           /\ query.exact_match_ids \cup query.category_match_ids
                  = Satisfiable(query.user, query.max_depth)
    /\ \A u \in Users, d \in Depths :
           LET sets == get_ingredient_match_sets(closure, ingCategories, inventory, u, d)
           IN  /\ sets.exact = user_ing_ids(inventory, u)
               /\ sets.exact \cap sets.category = {}
               /\ sets.exact \cup sets.category = Satisfiable(u, d)

\* the page was rendered for a user whose stock and another ingredient share
\* a category: both sets are non-empty
C24_Witness ==
    /\ query.ran
    /\ query.exact_match_ids # {}
    /\ query.category_match_ids # {}
    /\ \E i \in query.exact_match_ids :
           \E c \in ingCategories[i] :
               \E j \in Ingredients \ {i} : c \in ingCategories[j]

\* C26: for a user with no in-stock inventory rows get_makeable_recipes
\* returns an empty result for every max_depth and every closure table,
\* without error and without reading the closure table.
C26_EmptyInventoryNoClosureRead ==
    \A u \in Users :
        (\A i \in Ingredients : inventory[<<u, i>>] # "in_stock") =>
            /\ reader.user # u
            /\ (query.ran /\ query.user = u) => query.recipes = {}
            /\ \A d \in Depths : Makeable(u, d) = {}

\* a query of a user whose only inventory row is out of stock has returned
\* at a depth that would read the closure table, after a committed reparent
C26_Witness ==
    /\ query.ran
    /\ query.max_depth >= 1
    /\ \A i \in Ingredients : inventory[<<query.user, i>>] # "in_stock"
    /\ \E i \in Ingredients : inventory[<<query.user, i>>] = "out_of_stock"
    /\ txn.state = "committed" /\ txn.inserted # {}
    /\ query.recipes = {}

----------------------------------------------------------------------------
(* Drill-down claim *)

\* the categories reached from c by direct-child rows only
RECURSIVE ChildClosure(_, _)
ChildClosure(cl, S) ==
    LET T == S \cup UNION {get_subcategories(cl, c) : c \in S}
    IN  IF T = S THEN S ELSE ChildClosure(cl, T)

\* C30: the category suggest_category_for_ingredient returns, when not None,
\* is a top-level category or is reached from the chosen top-level category
\* by direct-child rows only: the first choice is a top-level category, every
\* drill-down step goes from the current category to one of its direct
\* children whatever slug the language model returns, and the drill-down
\* takes at most 5 steps.
C30_DrillDownFollowsChildren ==
    (drill.ran /\ drill.category # 0) =>
        /\ drill.path[1] \in get_top_level_categories(closure, cats)
        /\ \A k \in 1..(Len(drill.path) - 1) :
               drill.path[k + 1] \in get_subcategories(closure, drill.path[k])
        /\ drill.category \in ChildClosure(closure, {drill.path[1]})
        /\ Len(drill.path) - 1 <= MAX_DEPTH

----------------------------------------------------------------------------
(* Ingredient-matching claims *)

\* the positions (recipe, ingredient) of the parsed data
ParsedPositions ==
    {<<r, k>> : r \in DOMAIN parse.parsed, k \in 1..MaxParsedIngredients}
        \cap {rk \in (DOMAIN parse.parsed) \X (1..MaxParsedIngredients) :
                  rk[2] \in DOMAIN parse.parsed[rk[1]].ingredients}

ParsedName(rk) == parse.parsed[rk[1]].ingredients[rk[2]]

\* the steps match_ingredients took for a position
StepsAt(rk) ==
    {j \in DOMAIN parse.steps :
        parse.steps[j].recipe = rk[1] /\ parse.steps[j].index = rk[2]}

\* the existing names that equal a parsed name up to case
ExactHits(name) ==
    {parse.existing[k] : k \in {j \in DOMAIN parse.existing :
                                    lower(parse.existing[j]) = lower(name)}}

\* C21: when a parsed ingredient name equals an existing ingredient name
\* case-insensitively, match_ingredients takes the existing name (status
\* exact_match) and runs neither the fuzzy comparison nor the verification
\* for that ingredient.
C21_ExactMatchSkipsFuzzy ==
    parse.ran =>
        \A rk \in ParsedPositions :
            (ParsedName(rk) # "" /\ ExactHits(ParsedName(rk)) # {}) =>
                /\ Cardinality(StepsAt(rk)) = 1
                /\ \A j \in StepsAt(rk) :
                       LET res == parse.steps[j].result
                       IN  /\ res.logged
                           /\ res.entry.status = "exact_match"
                           /\ res.entry.matched_to \in ExactHits(ParsedName(rk))
                           /\ res.name = res.entry.matched_to
                           /\ parse.recipes[rk[1]].ingredients[rk[2]] = res.name
                           /\ ~res.compared
                           /\ res.verified = <<>>
                           /\ res.entry.candidates_checked = <<>>

\* "lime juice" was parsed while the catalogue holds "Lime Juice" and a name
\* similar to it: the name became "Lime Juice"
C21_Witness ==
    /\ parse.ran
    /\ \E k1, k2 \in DOMAIN parse.existing :
           parse.existing[k1] = "Lime Juice" /\ parse.existing[k2] = "Lime Juices"
    /\ \E rk \in ParsedPositions :
           /\ ParsedName(rk) = "lime juice"
           /\ parse.recipes[rk[1]].ingredients[rk[2]] = "Lime Juice"
           /\ \E j \in StepsAt(rk) : parse.steps[j].result.entry.status = "exact_match"

\* the existing names similar enough to a parsed name, with their similarity
Eligible(name) ==
    {[name |-> n, similarity |-> ratio(lower(name), lower(n))] :
        n \in {parse.existing[k] :
                  k \in {j \in DOMAIN parse.existing :
                            ratio(lower(name), lower(parse.existing[j]))
                                >= MATCH_THRESHOLD}}}

\* a sequence of candidates is a choice of the most similar eligible names,
\* in descending order of similarity
TopCandidates(name, cands) ==
    /\ Len(cands) <= 3
    /\ \A k \in DOMAIN cands : cands[k] \in Eligible(name)
    /\ \A k, j \in DOMAIN cands : k < j =>
           cands[k].similarity >= cands[j].similarity /\ cands[k] # cands[j]
    /\ \A m \in Eligible(name) \ {cands[k] : k \in DOMAIN cands} :
           \A k \in DOMAIN cands : m.similarity <= cands[k].similarity

\* C22: when there is no exact match, the candidates are at most 3 existing
\* names with similarity at least 0.6 to the parsed name, in descending
\* order of similarity; they are verified in that order, the first one the
\* verifier confirms is accepted and no later one is verified; with no
\* candidate, or none confirmed (a failing verifier included), the
\* ingredient is treated as new (status no_match).
C22_FuzzyCandidatesVerifiedInOrder ==
    parse.ran =>
        \A rk \in ParsedPositions :
            (ParsedName(rk) # "" /\ ExactHits(ParsedName(rk)) = {}) =>
                /\ Cardinality(StepsAt(rk)) = 1
                /\ \A j \in StepsAt(rk) :
                       LET res == parse.steps[j].result
                           checked == res.entry.candidates_checked
                           confirmed == {k \in DOMAIN checked :
                                            parse.oracle[checked[k].name] = "yes"}
                       IN  /\ TopCandidates(ParsedName(rk), checked)
                           /\ res.verified = [k \in DOMAIN checked |-> checked[k].name]
                           /\ confirmed \subseteq {Len(checked)}
                           /\ IF confirmed # {}
                              THEN /\ res.entry.status = "fuzzy_matched"
                                   /\ res.entry.matched_to = checked[Len(checked)].name
                                   /\ res.name = res.entry.matched_to
                              ELSE /\ res.entry.status = "no_match"
                                   /\ res.name = upper(ParsedName(rk))
                                   /\ Len(checked) = IF Cardinality(Eligible(ParsedName(rk))) < 3
                                                     THEN Cardinality(Eligible(ParsedName(rk)))
                                                     ELSE 3
                           /\ parse.recipes[rk[1]].ingredients[rk[2]] = res.name

\* the ingredient names of the parsed data, recipe after recipe
ParsedNamesInOrder ==
    Flatten([r \in DOMAIN parse.parsed |-> parse.parsed[r].ingredients])

\* C23: match_ingredients stores exactly one matching_log entry for every
\* ingredient of every recipe, each with a status among exact_match,
\* fuzzy_matched and no_match and the list of candidates checked with their
\* similarity.
C23_OneLogEntryPerIngredient ==
    parse.ran =>
        /\ Len(parse.matching_log) = Len(ParsedNamesInOrder)
        /\ \A j \in DOMAIN parse.matching_log :
               /\ parse.matching_log[j].original = ParsedNamesInOrder[j]
               /\ parse.matching_log[j].status \in {"exact_match", "fuzzy_matched", "no_match"}
               /\ \A k \in DOMAIN parse.matching_log[j].candidates_checked :
                      parse.matching_log[j].candidates_checked[k].similarity
                          = ratio(lower(ParsedNamesInOrder[j]),
                                  lower(parse.matching_log[j].candidates_checked[k].name))

----------------------------------------------------------------------------
(* Import-approval claim *)

\* C27: approve_selected, applied to a parsed import whose parsed data holds
\* N >= 1 recipes, approves all N: afterwards a Recipe exists for each of
\* the parsed recipes, the import has status approved, and it is counted as
\* approved with no error reported.
C27_ApproveSelectedApprovesAll ==
    (imp.ran /\ Len(imp.parsed) >= 1) =>
        /\ \A r \in DOMAIN imp.parsed :
               find_matching_recipe(imp.recipeRows, imp.parsed[r].name) # {}
        /\ imp.status = "approved"
        /\ imp.approved = 1
        /\ imp.errors = <<>>
====
